---- MODULE Spec2Model ----
(***************************************************************************)
(* Model of the search-and-harvest pipeline of                             *)
(* src/controllers/scraping.controller.js (Bing variant, lines 1-681):     *)
(* buildBingQueries, extractEmails / EMAIL_REGEX, classifyEmails,          *)
(* resolveBingRedirect and the runBingEmailHunt control loop.              *)
(*                                                                         *)
(* JavaScript strings are TLA+ strings; positions are 1-based here and     *)
(* 0-based in the source (EMAIL_REGEX.lastIndex keeps the source's 0-based *)
(* value).                                                                 *)
(***************************************************************************)
EXTENDS Integers, Sequences, FiniteSets, TLC

(***************************************************************************)
(* String primitives of the JavaScript runtime                              *)
(***************************************************************************)
CharAt(s, i) == SubSeq(s, i, i)

StartsWith(s, p) == Len(s) >= Len(p) /\ SubSeq(s, 1, Len(p)) = p

\* 1-based position of the first occurrence of p in s at or after from; 0 if none
IndexOfFrom(s, p, from) ==
  LET hits == {i \in from..(Len(s) - Len(p) + 1) : SubSeq(s, i, i + Len(p) - 1) = p}
  IN IF hits = {} THEN 0 ELSE CHOOSE i \in hits : \A j \in hits : i <= j

Includes(s, p) == IndexOfFrom(s, p, 1) > 0

UpperChars == "ABCDEFGHIJKLMNOPQRSTUVWXYZ"

LowerChars == "abcdefghijklmnopqrstuvwxyz"

DigitChars == "0123456789"

CharsOf(s) == {CharAt(s, i) : i \in 1..Len(s)}

LowerSet == CharsOf(LowerChars)

UpperSet == CharsOf(UpperChars)

DigitSet == CharsOf(DigitChars)

IsLower(c) == c \in LowerSet

IsUpper(c) == c \in UpperSet

IsDigit(c) == c \in DigitSet

IsLetter(c) == IsLower(c) \/ IsUpper(c)

IsSpace(c) == c \in {" ", "\t", "\n", "\r"}

LowerChar(c) == IF IsUpper(c) THEN CharAt(LowerChars, IndexOfFrom(UpperChars, c, 1)) ELSE c

\* the concatenation of F(s, lo), ..., F(s, hi) (the range is halved at each step)
RECURSIVE ConcatMap(_, _, _, _)
ConcatMap(F(_, _), s, lo, hi) ==
  IF lo > hi THEN ""
  ELSE IF lo = hi THEN F(s, lo)
  ELSE LET mid == (lo + hi) \div 2
       IN ConcatMap(F, s, lo, mid) \o ConcatMap(F, s, mid + 1, hi)

LowerCharAt(s, i) == LowerChar(CharAt(s, i))

ToLowerCase(s) == ConcatMap(LowerCharAt, s, 1, Len(s))

RECURSIVE TrimStart(_)
TrimStart(s) ==
  IF Len(s) > 0 /\ IsSpace(CharAt(s, 1)) THEN TrimStart(SubSeq(s, 2, Len(s))) ELSE s

RECURSIVE TrimEnd(_)
TrimEnd(s) ==
  IF Len(s) > 0 /\ IsSpace(CharAt(s, Len(s))) THEN TrimEnd(SubSeq(s, 1, Len(s) - 1)) ELSE s

Trim(s) == TrimEnd(TrimStart(s))

\* NaN, the result of parseInt on text without a leading number and of
\* Math.max and Math.min on it; every number of a request is at least 1, so
\* a negative value stands for it
NaN == -1

\* Array.prototype.slice(0, n); a NaN end is taken as 0
Slice(seq, n) ==
  IF n = NaN THEN <<>> ELSE SubSeq(seq, 1, IF n < Len(seq) THEN n ELSE Len(seq))

Range(seq) == {seq[i] : i \in 1..Len(seq)}

\* [...new Set(seq)]: first occurrences, in insertion order
Dedupe(seq) ==
  LET IsFirst(i) == \A j \in 1..(i - 1) : seq[j] # seq[i]
      kept == SelectSeq([i \in 1..Len(seq) |-> i], IsFirst)
  IN [k \in 1..Len(kept) |-> seq[kept[k]]]

\* Set.prototype.add on an insertion-ordered set
SetAdd(seq, e) == IF e \in Range(seq) THEN seq ELSE Append(seq, e)

\* Set.prototype.add of every element of es, in order
SetAddAll(seq, es) ==
  LET IsNew(e) == e \notin Range(seq)
  IN seq \o SelectSeq(Dedupe(es), IsNew)

(***************************************************************************)
(* EMAIL_REGEX = /[a-zA-Z0-9._%+-]+@[a-zA-Z0-9.-]+\.[a-zA-Z]{2,}/g         *)
(* and the built-ins that drive it (RegExp.prototype.exec / test,          *)
(* String.prototype.match), including the lastIndex of a global pattern.   *)
(***************************************************************************)
IsLocalChar(c) == IsLetter(c) \/ IsDigit(c) \/ c \in {".", "_", "%", "+", "-"}

IsDomainChar(c) == IsLetter(c) \/ IsDigit(c) \/ c \in {".", "-"}

Min(S) == CHOOSE x \in S : \A y \in S : x <= y

Max(S) == CHOOSE x \in S : \A y \in S : x >= y

\* first position >= i whose character is outside the class (Len(s)+1 at the end)
LocalRunEnd(s, i) == Min({j \in i..(Len(s) + 1) : j = Len(s) + 1 \/ ~IsLocalChar(CharAt(s, j))})

DomainRunEnd(s, i) == Min({j \in i..(Len(s) + 1) : j = Len(s) + 1 \/ ~IsDomainChar(CharAt(s, j))})

LetterRunEnd(s, i) == Min({j \in i..(Len(s) + 1) : j = Len(s) + 1 \/ ~IsLetter(CharAt(s, j))})

\* The pattern matched at position st: the position after the match, 0 if none.
\* Greedy with backtracking: the local part is the whole run before "@"; the
\* domain gives back characters down to the last "." followed by two letters.
EmailMatchAt(s, st) ==
  LET le == LocalRunEnd(s, st)
  IN IF ~(st <= Len(s) /\ le > st /\ le <= Len(s) /\ CharAt(s, le) = "@") THEN 0
     ELSE LET d0 == le + 1
              de == DomainRunEnd(s, d0)
              dots == {k \in (d0 + 1)..(de - 3) :
                         /\ CharAt(s, k) = "."
                         /\ IsLetter(CharAt(s, k + 1))
                         /\ IsLetter(CharAt(s, k + 2))}
          IN IF dots = {} THEN 0 ELSE LetterRunEnd(s, Max(dots) + 1)

\* RegExp.prototype.exec on the global pattern: the search starts at lastIndex
\* (0-based) and leaves lastIndex after the match, or 0 when there is none.
RegExpExec(s, lastIndex) ==
  LET starts == {st \in (lastIndex + 1)..Len(s) : EmailMatchAt(s, st) > 0}
  IN IF lastIndex > Len(s) \/ starts = {}
     THEN [found |-> FALSE, text |-> "", lastIndex |-> 0]
     ELSE LET st == Min(starts)
              en == EmailMatchAt(s, st)
          IN [found |-> TRUE, text |-> SubSeq(s, st, en - 1), lastIndex |-> en - 1]

\* RegExp.prototype.test: exec, keeping only whether it matched
RegExpTest(s, lastIndex) ==
  LET r == RegExpExec(s, lastIndex) IN [found |-> r.found, lastIndex |-> r.lastIndex]

RECURSIVE MatchAllFrom(_, _)
MatchAllFrom(s, lastIndex) ==
  LET r == RegExpExec(s, lastIndex)
  IN IF ~r.found THEN <<>> ELSE <<r.text>> \o MatchAllFrom(s, r.lastIndex)

\* String.prototype.match with a global pattern: lastIndex is set to 0 first,
\* every match is collected, and lastIndex is 0 afterwards.
StringMatch(s, lastIndex) == [matches |-> MatchAllFrom(s, 0), lastIndex |-> 0]

\* a loop of exec calls that starts from the pattern's current lastIndex
StringMatch_stale(s, lastIndex) == [matches |-> MatchAllFrom(s, lastIndex), lastIndex |-> 0]

MapTrimLower(seq) == [i \in 1..Len(seq) |-> ToLowerCase(Trim(seq[i]))]

\* extractEmails driven by exec from the shared pattern's current lastIndex
ExtractEmails_stale(text, lastIndex) ==
  IF text = "" THEN [emails |-> <<>>, lastIndex |-> lastIndex]
  ELSE LET m == StringMatch_stale(text, lastIndex)
       IN [emails |-> Dedupe(MapTrimLower(m.matches)), lastIndex |-> m.lastIndex]

\* extractEmails(text), with the lastIndex of the shared EMAIL_REGEX before
\* the call as a second argument and after the call in the result
ExtractEmails(text, lastIndex) ==
  IF text = "" THEN [emails |-> <<>>, lastIndex |-> lastIndex]
  ELSE LET m == StringMatch(text, lastIndex)
       IN [emails |-> Dedupe(MapTrimLower(m.matches)), lastIndex |-> m.lastIndex]

(***************************************************************************)
(* classifyEmails                                                          *)
(***************************************************************************)
HR_EMAIL_KEYWORDS ==
  <<"hr", "job", "jobs", "career", "careers", "recruit", "recruiter", "recruitment",
    "talent", "apply", "hiring", "people", "human", "resource", "resources",
    "employment", "candidature", "recrutement", "carriere", "emploi", "poste", "cv">>

GENERIC_EXCLUDE_PREFIXES ==
  <<"info@", "contact@", "support@", "help@", "noreply@", "no-reply@", "newsletter@",
    "marketing@", "sales@", "webmaster@", "admin@", "postmaster@", "hello@", "office@">>

HasGenericPrefix(lower) ==
  \E i \in 1..Len(GENERIC_EXCLUDE_PREFIXES) : StartsWith(lower, GENERIC_EXCLUDE_PREFIXES[i])

HasHrKeyword(str) ==
  \E i \in 1..Len(HR_EMAIL_KEYWORDS) : Includes(str, HR_EMAIL_KEYWORDS[i])

\* /^[a-z]+\.[a-z]+@/i
NamePattern(lower) ==
  LET a == LetterRunEnd(lower, 1)
      b == LetterRunEnd(lower, a + 1)
  IN /\ a > 1 /\ a <= Len(lower) /\ CharAt(lower, a) = "."
     /\ b > a + 1 /\ b <= Len(lower) /\ CharAt(lower, b) = "@"

\* the branch of classifyEmails taken for one address: "hr", "general" or "drop"
ClassOf(email, ctx, hrFocus) ==
  LET lower == ToLowerCase(email)
  IN IF HasGenericPrefix(lower) THEN (IF ~hrFocus THEN "general" ELSE "drop")
     ELSE LET hasKeyword == HasHrKeyword(lower)
              namePattern == NamePattern(lower)
              contextHas == HasHrKeyword(ctx)
          IN IF hasKeyword \/ (contextHas /\ (namePattern \/ hrFocus)) \/ (namePattern /\ hrFocus)
             THEN "hr" ELSE "general"

ClassifyEmails(emails, context, hrFocus) ==
  LET ctx == ToLowerCase(context)
      lowers == [i \in 1..Len(emails) |-> ToLowerCase(emails[i])]
      IsHr(e) == ClassOf(e, ctx, hrFocus) = "hr"
      IsGeneral(e) == ClassOf(e, ctx, hrFocus) = "general"
      hr == SelectSeq(lowers, IsHr)
      general == SelectSeq(lowers, IsGeneral)
  IN [hr |-> Dedupe(hr), general |-> Dedupe(general), all |-> Dedupe(hr \o general)]

(***************************************************************************)
(* buildBingQueries                                                        *)
(***************************************************************************)
\* country is "" when the caller gave none (a falsy value)
GeoOf(country) == IF country # "" THEN Trim(country) ELSE "morocco"

CoreQueries(q, geo) ==
  << "\"" \o q \o "\" email contact " \o geo,
     "\"" \o q \o "\" (\"email us\" OR \"contact us\") " \o geo >>

HrQueries(q, geo) ==
  << "\"" \o q \o "\" (\"hr@\" OR \"careers@\" OR \"jobs@\" OR \"recruitment@\") " \o geo,
     "\"" \o q \o "\" careers jobs apply cv email " \o geo,
     "\"" \o q \o "\" (\"send your cv\" OR \"submit your cv\" OR \"postuler\") " \o geo,
     "\"" \o q \o "\" recrutement emploi carriere email " \o geo,
     "\"" \o q \o "\" site:linkedin.com email " \o geo,
     "\"" \o q \o "\" site:indeed.com email " \o geo >>

\* the HR phrases placed before the core phrases
BuildBingQueries_hrFirst(baseQuery, hrFocus, country) ==
  LET q == Trim(baseQuery)
      geo == GeoOf(country)
  IN Dedupe(IF hrFocus THEN HrQueries(q, geo) \o CoreQueries(q, geo) ELSE CoreQueries(q, geo))

BuildBingQueries(baseQuery, hrFocus, country) ==
  LET q == Trim(baseQuery)
      geo == GeoOf(country)
      core == CoreQueries(q, geo)
      hrSet == HrQueries(q, geo)
      all == IF hrFocus THEN core \o hrSet ELSE core
  IN Dedupe(all)

(***************************************************************************)
(* resolveBingRedirect, with decodeURIComponent and the base64 decoding of *)
(* Buffer.from(s, 'base64').toString('utf-8') on printable ASCII           *)
(***************************************************************************)
\* the printable ASCII characters, code 32 first (code 96, the grave accent,
\* cannot be written in a string of this language and reads as "?")
Ascii ==
  " !\"#$%&'()*+,-./0123456789:;<=>?@ABCDEFGHIJKLMNOPQRSTUVWXYZ[\\]^_?abcdefghijklmnopqrstuvwxyz{|}~"

\* the character of a byte; a byte outside printable ASCII reads as "?"
CharOfByte(b) ==
  IF b >= 32 /\ b < 32 + Len(Ascii) THEN CharAt(Ascii, b - 31) ELSE "?"

ByteOfChar(c) == IndexOfFrom(Ascii, c, 1) + 31

UpperHexDigits == "0123456789ABCDEF"

\* encodeURIComponent on printable ASCII (the string is halved at each step)
EncodeChar(c) ==
  IF IsLetter(c) \/ IsDigit(c) \/ c \in {"-", "_", ".", "!", "~", "*", "'", "(", ")"}
  THEN c
  ELSE "%" \o CharAt(UpperHexDigits, (ByteOfChar(c) \div 16) + 1)
           \o CharAt(UpperHexDigits, (ByteOfChar(c) % 16) + 1)

EncodeCharAt(s, i) == EncodeChar(CharAt(s, i))

EncodeURIComponent(s) == ConcatMap(EncodeCharAt, s, 1, Len(s))

HexDigits == "0123456789abcdef"

IsHex(c) == LowerChar(c) \in CharsOf(HexDigits)

HexVal(c) == IndexOfFrom(HexDigits, LowerChar(c), 1) - 1

\* "%" at position i begins an escape: two hex digits follow
IsEscapeAt(s, i) ==
  CharAt(s, i) = "%" /\ i + 2 <= Len(s) /\ IsHex(CharAt(s, i + 1)) /\ IsHex(CharAt(s, i + 2))

EscapeByte(s, i) == 16 * HexVal(CharAt(s, i + 1)) + HexVal(CharAt(s, i + 2))

\* what position i contributes to the decoded string: the character of the
\* escape that begins there, nothing for the two hex digits of an escape,
\* the character itself otherwise
DecodedAt(s, i) ==
  IF CharAt(s, i) = "%" THEN CharOfByte(EscapeByte(s, i))
  ELSE IF (i > 1 /\ CharAt(s, i - 1) = "%") \/ (i > 2 /\ CharAt(s, i - 2) = "%") THEN ""
  ELSE CharAt(s, i)

\* decodeURIComponent: ok = FALSE stands for the URIError it throws on a "%"
\* that is not followed by two hex digits, or on a byte that is not ASCII
\* and begins no valid UTF-8 sequence (the modelled inputs hold no multi-byte
\* sequence)
DecodeURIComponent(s) ==
  IF \A i \in 1..Len(s) : CharAt(s, i) = "%" => (IsEscapeAt(s, i) /\ EscapeByte(s, i) < 128)
  THEN [ok |-> TRUE, value |-> ConcatMap(DecodedAt, s, 1, Len(s))]
  ELSE [ok |-> FALSE, value |-> ""]

Base64Chars == "ABCDEFGHIJKLMNOPQRSTUVWXYZabcdefghijklmnopqrstuvwxyz0123456789+/"

IsBase64(c) == c \in CharsOf(Base64Chars)

SextetOf(c) == IndexOfFrom(Base64Chars, c, 1) - 1

\* the base64 digits of s: decoding ends at the first "=", and characters
\* outside the alphabet are passed over
Base64DigitAt(s, i) == IF IsBase64(CharAt(s, i)) THEN CharAt(s, i) ELSE ""

Base64Digits(s) ==
  LET pad == IndexOfFrom(s, "=", 1)
  IN ConcatMap(Base64DigitAt, s, 1, IF pad = 0 THEN Len(s) ELSE pad - 1)

Sextet(d, i) == SextetOf(CharAt(d, i))

\* the bytes of the g-th group of four digits (fewer in the last group)
Base64Group(d, g) ==
  LET i == 4 * g - 3
      n == IF Len(d) - i + 1 > 4 THEN 4 ELSE Len(d) - i + 1
  IN IF n < 2 THEN ""
     ELSE CharOfByte(Sextet(d, i) * 4 + (Sextet(d, i + 1) \div 16))
          \o (IF n < 3 THEN ""
              ELSE CharOfByte((Sextet(d, i + 1) % 16) * 16 + (Sextet(d, i + 2) \div 4)))
          \o (IF n < 4 THEN ""
              ELSE CharOfByte((Sextet(d, i + 2) % 4) * 64 + Sextet(d, i + 3)))

Base64Bytes(d) == ConcatMap(Base64Group, d, 1, (Len(d) + 3) \div 4)

Base64Decode(s) == Base64Bytes(Base64Digits(s))

\* url.match(/u=([^&]+)/): the capture of the leftmost "u=" followed by at
\* least one character other than "&"; found = FALSE for null
MatchUParam(url) ==
  LET hits == {i \in 1..(Len(url) - 2) : SubSeq(url, i, i + 1) = "u=" /\ CharAt(url, i + 2) # "&"}
  IN IF hits = {} THEN [found |-> FALSE, capture |-> ""]
     ELSE LET i == Min(hits)
              e == Min({j \in (i + 2)..(Len(url) + 1) : j = Len(url) + 1 \/ CharAt(url, j) = "&"})
          IN [found |-> TRUE, capture |-> SubSeq(url, i + 2, e - 1)]

BingWrapper == "bing.com/ck/a?"

\* resolveBingRedirect without the guard on the wrapper pattern
ResolveBingRedirect_noGuard(url) ==
  LET match == MatchUParam(url)
  IN IF ~match.found THEN url
     ELSE LET dec == DecodeURIComponent(match.capture)
          IN IF ~dec.ok THEN url
             ELSE LET decoded == IF StartsWith(dec.value, "a1") /\ ~StartsWith(dec.value, "http")
                                 THEN Base64Decode(SubSeq(dec.value, 3, Len(dec.value)))
                                 ELSE dec.value
                  IN IF StartsWith(decoded, "http") THEN decoded ELSE url

ResolveBingRedirect(url) ==
  IF ~Includes(url, BingWrapper) THEN url
  ELSE LET match == MatchUParam(url)
       IN IF ~match.found THEN url
          ELSE LET dec == DecodeURIComponent(match.capture)
               IN IF ~dec.ok THEN url
                  ELSE LET decoded == IF StartsWith(dec.value, "a1") /\ ~StartsWith(dec.value, "http")
                                      THEN Base64Decode(SubSeq(dec.value, 3, Len(dec.value)))
                                      ELSE dec.value
                       IN IF StartsWith(decoded, "http") THEN decoded ELSE url

(***************************************************************************)
(* The network as the run sees it: result pages of the primary engine,     *)
(* visited pages and result pages of the secondary engine, each given by   *)
(* its markup and by what cheerio reads out of that markup.                *)
(***************************************************************************)
\* anchors of a result page: href and the selectors of the cascade
\* (1..5, in the order of the source) that select the anchor
SerpBlank ==
  [html |-> "<!DOCTYPE html><html><head><title>acme - Search</title></head><body>No results</body></html>",
   bodyText |-> "No results",
   anchors |-> <<>>]

SerpCaptcha ==
  [html |-> "<!DOCTYPE html><html><body><div id=\"b_captcha\">Verify captcha</div><div id=\"b_results\"><a href=\"https://acme.com/help\">Help</a> info@acme.com</div></body></html>",
   bodyText |-> "Verify captchaHelp info@acme.com",
   anchors |-> << [href |-> "https://acme.com/help", sels |-> {5}] >>]

SerpResults ==
  [html |-> "<!DOCTYPE html><html><body><ol id=\"b_results\"> <li class=\"b_algo\"><h2><a href=\"https://www.bing.com/ck/a?p=1&u=a1aHR0cHM6Ly9hY21lLm1hL2hy&ntb=1\">Acme</a></h2> Bob@acme.com </li> <li class=\"b_algo\"><h2><a href=\"https://acme.com/contact\">Contact</a></h2></li> <li class=\"b_algo\"><h2><a href=\"/search?q=acme\">More</a></h2></li> <li class=\"b_algo\"><h2><a href=\"http://acme.ma/jobs\">Jobs</a></h2></li> <li><a href=\"https://www.bing.com/images\">Images</a></li> </ol></body></html>",
   bodyText |-> " Acme Bob@acme.com Contact More Jobs Images ",
   anchors |-> << [href |-> "https://www.bing.com/ck/a?p=1&u=a1aHR0cHM6Ly9hY21lLm1hL2hy&ntb=1", sels |-> {1, 2, 3, 4, 5}],
                  [href |-> "https://acme.com/contact", sels |-> {1, 2, 3, 4, 5}],
                  [href |-> "/search?q=acme", sels |-> {1, 2, 3, 4}],
                  [href |-> "http://acme.ma/jobs", sels |-> {1, 2, 3, 4, 5}],
                  [href |-> "https://www.bing.com/images", sels |-> {5}] >>]

\* a captcha page without any result link
SerpCaptchaBare ==
  [html |-> "<!DOCTYPE html><html><body><div id=\"b_captcha\">Verify captcha</div><p>Data: privacy@acme.com</p></body></html>",
   bodyText |-> "Verify captchaData: privacy@acme.com",
   anchors |-> <<>>]

\* number of results of the long result page
ManyLinks == 21

ManyLinkHref(i) == "https://acme.com/p" \o ToString(i)

RECURSIVE ManyLinksMarkup(_)
ManyLinksMarkup(n) ==
  IF n = 0 THEN ""
  ELSE ManyLinksMarkup(n - 1)
         \o "<li class=\"b_algo\"><h2><a href=\"" \o ManyLinkHref(n) \o "\"></a></h2></li>"

\* a result page with ManyLinks results whose anchors have no text
SerpManyLinks ==
  [html |-> "<!DOCTYPE html><html><body><ol id=\"b_results\">" \o ManyLinksMarkup(ManyLinks)
              \o "</ol></body></html>",
   bodyText |-> "",
   anchors |-> [i \in 1..ManyLinks |-> [href |-> ManyLinkHref(i), sels |-> {1, 2, 3, 4, 5}]]]

SerpPool == <<SerpBlank, SerpCaptcha, SerpResults, SerpCaptchaBare, SerpManyLinks>>

\* the result pages a run on the short pool can get, and the long one
ShortSerps == {d \in 1..Len(SerpPool) : Len(SerpPool[d].anchors) < ManyLinks}

LongSerps == {d \in 1..Len(SerpPool) : Len(SerpPool[d].anchors) >= ManyLinks}

\* a visited page: status, $$('body').text() after the removal of script,
\* style and noscript, $$('title').text(), and the href of every
\* a[href^="mailto:"] in document order
PageContact ==
  [status |-> 200,
   body |-> "Team: Bob@acme.com, info@acme.com",
   title |-> " Our team ",
   mailtos |-> <<"mailto:jane.doe@example.com?subject=Hi", "mailto:sam@acme.com">>]

PageApply ==
  [status |-> 200,
   body |-> "",
   title |-> "",
   mailtos |-> <<"mailto:cv@acme.ma">>]

PageNotFound ==
  [status |-> 404, body |-> "Not found", title |-> "404", mailtos |-> <<>>]

PagePool == <<PageContact, PageApply, PageNotFound>>

\* the exceptions fetchWithTimeout lets through: the abort of the timeout
\* and a connection-level failure
AbortError == [name |-> "AbortError", message |-> "This operation was aborted"]

NetworkError == [name |-> "TypeError", message |-> "fetch failed"]

FetchErrors == {AbortError, NetworkError}

\* a result page of the secondary engine: text of the snippet blocks and
\* href of every a.result__a
DuckEmpty == [snippetText |-> "", hrefs |-> <<>>]

DuckSnippets ==
  [snippetText |-> "Acme careers: jobs@acme.ma or office@acme.ma",
   hrefs |-> <<"https://acme.ma/jobs", "//duckduckgo.com/l/?uddg=x">>]

DuckPool == <<DuckEmpty, DuckSnippets>>

(***************************************************************************)
(* runBingEmailHunt                                                        *)
(***************************************************************************)
VARIABLES
  req,                    \* the HuntRequest of the run
  pc,                     \* "query", "pages", "fallback", "done"
  qi,                     \* loop index of the query loop (0-based, as in the source)
  links,                  \* links extracted from the result page of query qi
  li,                     \* number of links of the current query already handled
  captcha,                \* the captcha flag of the result page of query qi
  snippetHREmails, snippetGeneralEmails, pageHREmails, pageGeneralEmails,
  scrapedUrls, failedUrls, allSearchUrls,
  totalVisited, captchaTriggered, bingBlockedEveryQuery,
  fallbackUsed,
  hrEmails, generalEmails,   \* the returned lists, set when pc = "done"
  emailRegexLastIndex,    \* EMAIL_REGEX.lastIndex, a module-level object
  sleeps,                 \* number of politeness delays executed
  serpLog,                \* the primary-engine fetches made, in order
  pageLog,                \* the page fetches made, in order
  fallbackLog,            \* the secondary-engine fetches made, in order
  debug,                  \* <<>> for null, else <<the debug object>>
  response,               \* <<>> until the route answers, then <<the answer>>
  phase,                  \* the request in flight: "idle", "headers" or "body"
  stalled,                \* the remote server has stopped responding to it
  history,                \* the runs answered before this one, in order
  callArgs, callResult, called   \* a direct call of one of the pure functions

huntVars ==
  <<req, pc, qi, links, li, captcha, snippetHREmails, snippetGeneralEmails,
    pageHREmails, pageGeneralEmails, scrapedUrls, failedUrls, allSearchUrls,
    totalVisited, captchaTriggered, bingBlockedEveryQuery, fallbackUsed,
    hrEmails, generalEmails, sleeps, serpLog, pageLog, fallbackLog, debug, response,
    phase, stalled, history>>

callVars == <<callArgs, callResult, called>>

vars == <<huntVars, emailRegexLastIndex, callVars>>

\* bounds of the requests explored
MaxQueries == 2

MaxUrlsPerQuery == 2

MaxBudget == 2

Requests ==
  [query : {"Acme Corp"}, hrFocus : BOOLEAN, country : {"morocco"},
   maxQueries : 1..MaxQueries, maxUrlsPerQuery : 1..MaxUrlsPerQuery,
   globalUrlBudget : 1..MaxBudget, collectDebug : BOOLEAN]

\* the whole list of the builder is consumed
QueriesOf_noSlice(r) == BuildBingQueries(r.query, r.hrFocus, r.country)

\* const queries = buildBingQueries(query, hrFocus, country).slice(0, maxQueries)
QueriesOf(r) == Slice(BuildBingQueries(r.query, r.hrFocus, r.country), r.maxQueries)

Queries == QueriesOf(req)

\* globalUrlBudget !== undefined && totalVisited >= globalUrlBudget
BudgetExhausted_offByOne(visited, budget) == visited > budget

\* a comparison with NaN is false
BudgetExhausted(visited, budget) == budget # NaN /\ visited >= budget

BingUrl(qStr) ==
  "https://www.bing.com/search?q=" \o EncodeURIComponent(qStr)
    \o "&count=15&mkt=en-US&setlang=en-US&cc=US&ensearch=1&FORM=R5FD"

\* the message of the exception, whatever its name
ErrorText_message(err) == err.message

\* err.name === 'AbortError' ? 'timeout' : err.message
ErrorText(err) == IF err.name = "AbortError" THEN "timeout" ELSE err.message

\* low.includes('captcha') && html.includes('b_captcha')
CaptchaSuspect(html) == Includes(ToLowerCase(html), "captcha") /\ Includes(html, "b_captcha")

\* isBlockedVariant(html): its three patterns are tested on the lowercased
\* markup
IsBlockedVariant(html) ==
  LET low == ToLowerCase(html)
      noAlgo == ~Includes(low, "b_algo")
      maybeShell == Includes(low, "<!doctype html") /\ Includes(low, "- Search</title>")
  IN noAlgo /\ maybeShell

\* /^https?:\/\//.test(href)
IsHttpUrl(href) == StartsWith(href, "http://") \/ StartsWith(href, "https://")

\* the cascade of selectors: every selector adds the http(s) hrefs of the
\* anchors it selects; the cap is looked at after each selector only
RECURSIVE LinkCascade(_, _, _, _)
LinkCascade(anchors, sel, linkSet, maxUrlsPerQuery) ==
  IF sel > 5 THEN linkSet
  ELSE LET IsHit(a) == sel \in a.sels /\ a.href # "" /\ IsHttpUrl(a.href)
           hits == SelectSeq(anchors, IsHit)
           grown == SetAddAll(linkSet, [i \in 1..Len(hits) |-> hits[i].href])
       IN IF maxUrlsPerQuery # NaN /\ Len(grown) >= maxUrlsPerQuery * 2 THEN grown
          ELSE LinkCascade(anchors, sel + 1, grown, maxUrlsPerQuery)

ExtractLinks(anchors, maxUrlsPerQuery) == LinkCascade(anchors, 1, <<>>, maxUrlsPerQuery)

\* if (captcha) break, at the end of the body of the query loop
StopAfterQuery_never(cap) == FALSE

StopAfterQuery(cap) == cap

\* if (bingBlockedEveryQuery), before the fallback
ShouldFallback_never(blocked) == FALSE

ShouldFallback(blocked) == blocked

\* m.replace(/^mailto:/i, '').split('?')[0].trim().toLowerCase()
MailOf(m) ==
  LET stripped == IF StartsWith(ToLowerCase(m), "mailto:") THEN SubSeq(m, 8, Len(m)) ELSE m
      q == IndexOfFrom(stripped, "?", 1)
      first == IF q = 0 THEN stripped ELSE SubSeq(stripped, 1, q - 1)
  IN ToLowerCase(Trim(first))

\* the callback of $$('a[href^="mailto:"]').each over the anchors ms, in
\* document order; st carries the accumulators, the counters and the
\* lastIndex of the shared EMAIL_REGEX from one anchor to the next
\* one anchor: mail is the cleaned address, t the result of EMAIL_REGEX.test
\* (not run for an empty address), c2 the classification of [mail]
MailtoStep(st, mail, t, c2) ==
  IF mail # "" /\ t.found
  THEN [hr |-> SetAddAll(st.hr, c2.hr),
        general |-> SetAddAll(st.general, c2.general),
        hrAdded |-> st.hrAdded + Len(c2.hr),
        generalAdded |-> st.generalAdded + Len(c2.general),
        lastIndex |-> t.lastIndex]
  ELSE [st EXCEPT !.lastIndex = t.lastIndex]

MailtoTest(mail, lastIndex) ==
  IF mail = "" THEN [found |-> FALSE, lastIndex |-> lastIndex] ELSE RegExpTest(mail, lastIndex)

MailtoAnchor(st, mail, title, hrFocus) ==
  MailtoStep(st, mail, MailtoTest(mail, st.lastIndex), ClassifyEmails(<<mail>>, title, hrFocus))

RECURSIVE ProcessMailtos(_, _, _, _)
ProcessMailtos(ms, st, title, hrFocus) ==
  IF Len(ms) = 0 THEN st
  ELSE ProcessMailtos(Tail(ms), MailtoAnchor(st, MailOf(ms[1]), title, hrFocus), title, hrFocus)

\* the try block of a page visit after a successful response: body emails,
\* then the mailto anchors
ClassifyIfAny(emails, context, hrFocus) ==
  IF Len(emails) > 0 THEN ClassifyEmails(emails, context, hrFocus)
  ELSE [hr |-> <<>>, general |-> <<>>, all |-> <<>>]

BodyState(pageHR, pageGeneral, classified, lastIndex) ==
  [hr |-> SetAddAll(pageHR, classified.hr),
   general |-> SetAddAll(pageGeneral, classified.general),
   hrAdded |-> Len(classified.hr),
   generalAdded |-> Len(classified.general),
   lastIndex |-> lastIndex]

BodyPass(ex, context, pageHR, pageGeneral, hrFocus) ==
  BodyState(pageHR, pageGeneral, ClassifyIfAny(ex.emails, context, hrFocus), ex.lastIndex)

ProcessPage(page, pageHR, pageGeneral, lastIndex, hrFocus) ==
  [title |-> Trim(page.title),
   st |-> ProcessMailtos(page.mailtos,
                         BodyPass(ExtractEmails(page.body, lastIndex),
                                  page.body \o " " \o Trim(page.title),
                                  pageHR, pageGeneral, hrFocus),
                         Trim(page.title), hrFocus)]

\* isLikelyHRPage
IsLikelyHRPage(url, title) == HasHrKeyword(ToLowerCase(url \o " " \o title))

\* the two final lists, from the four accumulators
FinalHrEmails(snippetHr, pageHr) == Dedupe(snippetHr \o pageHr)

\* the general list without the removal of the HR addresses
FinalGeneralEmails_noFilter(snippetGeneral, pageGeneral, hr) == Dedupe(snippetGeneral \o pageGeneral)

FinalGeneralEmails(snippetGeneral, pageGeneral, hr) ==
  LET NotHr(e) == e \notin Range(hr)
  IN Dedupe(SelectSeq(snippetGeneral \o pageGeneral, NotHr))

\* duckDuckGoFallback after its fetch returned the result page d
DuckResult(d, maxLinks, classifiedSnippet, lastIndex) ==
  [links |-> Slice(SelectSeq(d.hrefs, IsHttpUrl), maxLinks),
   snippetHr |-> classifiedSnippet.hr,
   snippetGeneral |-> classifiedSnippet.general,
   lastIndex |-> lastIndex]

DuckClassify(d, maxLinks, hrFocus, ex) ==
  DuckResult(d, maxLinks, ClassifyEmails(ex.emails, d.snippetText, hrFocus), ex.lastIndex)

DuckDuckGoFallback(d, maxLinks, hrFocus, lastIndex) ==
  DuckClassify(d, maxLinks, hrFocus, ExtractEmails(d.snippetText, lastIndex))


(***************************************************************************)
(* The debug object: null unless collectDebug; its aggregate counters and  *)
(* its fallback entry (perQuery, the per-query trace, is left out)         *)
(***************************************************************************)
DebugStart(r) ==
  IF r.collectDebug
  THEN << [queries |-> QueriesOf(r),
           aggregate |-> [totalQueries |-> Len(QueriesOf(r)),
                          totalLinksDiscovered |-> 0,
                          totalPagesFetched |-> 0,
                          totalPageFetchErrors |-> 0],
           fallback |-> <<>>] >>
  ELSE <<>>

\* if (collectDebug) debug.aggregate.totalLinksDiscovered += links.length
DebugLinks(dbg, n) ==
  IF dbg = <<>> THEN dbg
  ELSE << [dbg[1] EXCEPT !.aggregate.totalLinksDiscovered = @ + n] >>

\* if (collectDebug) debug.aggregate.totalPagesFetched += 1
DebugPageFetched(dbg) ==
  IF dbg = <<>> THEN dbg
  ELSE << [dbg[1] EXCEPT !.aggregate.totalPagesFetched = @ + 1] >>

\* if (collectDebug) debug.aggregate.totalPageFetchErrors += 1
DebugPageError(dbg) ==
  IF dbg = <<>> THEN dbg
  ELSE << [dbg[1] EXCEPT !.aggregate.totalPageFetchErrors = @ + 1] >>

\* debug.fallback after a fallback that returned
DebugFallbackResult(dbg, fallback) ==
  IF dbg = <<>> THEN dbg
  ELSE << [dbg[1] EXCEPT !.fallback =
             << [engine |-> "duckduckgo",
                 linksTried |-> fallback.links,
                 snippetHrFound |-> Len(fallback.snippetHr),
                 snippetGeneralFound |-> Len(fallback.snippetGeneral)] >>] >>

\* a catch block of the fallback that records nothing
DebugFallbackError_dropped(dbg, e) == dbg

\* debug.fallback after a fallback that threw e
DebugFallbackError(dbg, e) ==
  IF dbg = <<>> THEN dbg
  ELSE << [dbg[1] EXCEPT !.fallback = << [engine |-> "duckduckgo", error |-> e.message] >>] >>

\* the counters written into debug.aggregate before the return
DebugFinal(dbg, hr, general, used) ==
  IF dbg = <<>> THEN dbg
  ELSE << [dbg[1] EXCEPT !.aggregate =
             [totalQueries |-> @.totalQueries,
              totalLinksDiscovered |-> @.totalLinksDiscovered,
              totalPagesFetched |-> @.totalPagesFetched,
              totalPageFetchErrors |-> @.totalPageFetchErrors,
              hrEmails |-> Len(hr),
              generalEmails |-> Len(general),
              scrapedUrls |-> Len(scrapedUrls),
              failedUrls |-> Len(failedUrls),
              allSearchUrls |-> Len(allSearchUrls),
              captchaTriggered |-> captchaTriggered,
              fallbackUsed |-> used]] >>

(***************************************************************************)
(* The steps of a run, one per awaited fetch and per loop exit             *)
(***************************************************************************)
\* the awaited request of the run is over: its response was read to the
\* end, or it threw
FetchSettled == phase' = "idle" /\ stalled' = FALSE

CallIdle == callArgs = <<>> /\ callResult = <<>> /\ called = FALSE

HuntStart(r) ==
  /\ req = r
  /\ pc = "query" /\ qi = 0 /\ links = <<>> /\ li = 0 /\ captcha = FALSE
  /\ snippetHREmails = <<>> /\ snippetGeneralEmails = <<>>
  /\ pageHREmails = <<>> /\ pageGeneralEmails = <<>>
  /\ scrapedUrls = <<>> /\ failedUrls = <<>> /\ allSearchUrls = <<>>
  /\ totalVisited = 0 /\ captchaTriggered = FALSE /\ bingBlockedEveryQuery = TRUE
  /\ fallbackUsed = FALSE /\ hrEmails = <<>> /\ generalEmails = <<>>
  /\ sleeps = 0 /\ serpLog = <<>> /\ pageLog = <<>> /\ fallbackLog = <<>>
  /\ debug = DebugStart(r) /\ response = <<>>
  /\ phase = "idle" /\ stalled = FALSE /\ history = <<>>

Init == (\E r \in Requests : HuntStart(r)) /\ emailRegexLastIndex = 0 /\ CallIdle

\* the return statement: the two final lists are computed from the accumulators
Return(snippetHr, snippetGeneral, hr, dbg, used) ==
  /\ pc' = "done"
  /\ hrEmails' = hr
  /\ generalEmails' = FinalGeneralEmails(snippetGeneral, pageGeneralEmails, hr)
  /\ debug' = DebugFinal(dbg, hr, FinalGeneralEmails(snippetGeneral, pageGeneralEmails, hr), used)

\* the code between the end of the query loop and either the fetch of the
\* fallback or the return
AfterLoop ==
  IF ShouldFallback(bingBlockedEveryQuery)
  THEN pc' = "fallback" /\ UNCHANGED <<hrEmails, generalEmails, debug>>
  ELSE Return(snippetHREmails, snippetGeneralEmails,
              FinalHrEmails(snippetHREmails, pageHREmails), debug, FALSE)

\* a delay before every query, the first included
SleepsAfter_everyQuery(i, n) == n + 1

\* if (qi > 0) await sleep(1000 + Math.random() * 600), between the budget
\* check and the fetch of the result page of the query of loop index i
SleepsAfter(i, n) == IF i > 0 THEN n + 1 ELSE n

InQuery ==
  /\ pc = "query"
  /\ qi < Len(Queries)
  /\ ~BudgetExhausted(totalVisited, req.globalUrlBudget)

\* the fetch of the result page of query qi returned the page SerpPool[d]
SerpFetched(d) ==
  /\ FetchSettled
  /\ InQuery
  /\ \E cap \in {CaptchaSuspect(SerpPool[d].html)} :
       /\ captcha' = cap
       /\ captchaTriggered' = (captchaTriggered \/ cap)
  /\ \E ex \in {ExtractEmails(SerpPool[d].bodyText, emailRegexLastIndex)} :
       /\ emailRegexLastIndex' = ex.lastIndex
       /\ \E classified \in {ClassifyIfAny(ex.emails, SerpPool[d].html, req.hrFocus)} :
            /\ snippetHREmails' = SetAddAll(snippetHREmails, classified.hr)
            /\ snippetGeneralEmails' = SetAddAll(snippetGeneralEmails, classified.general)
  /\ \E found \in {ExtractLinks(SerpPool[d].anchors, req.maxUrlsPerQuery)} :
       /\ links' = found
       /\ bingBlockedEveryQuery' = IF Len(found) > 0 THEN FALSE ELSE bingBlockedEveryQuery
       /\ serpLog' = Append(serpLog, [qi |-> qi, query |-> Queries[qi + 1], doc |-> d,
                                      error |-> "", errName |-> "", links |-> Len(found),
                                      blockedVariant |-> IsBlockedVariant(SerpPool[d].html)])
       /\ debug' = DebugLinks(debug, Len(found))
  /\ sleeps' = SleepsAfter(qi, sleeps)
  /\ li' = 0
  /\ pc' = "pages"
  /\ UNCHANGED <<req, qi, pageHREmails, pageGeneralEmails, scrapedUrls, failedUrls,
                 allSearchUrls, totalVisited, fallbackUsed, hrEmails, generalEmails,
                 pageLog, fallbackLog, response, history, callVars>>

\* the entry of failedUrls for the query of loop index i with the index
\* itself as its searchPage
SearchFailure_zeroBased(bingUrl, err, i) ==
  [url |-> bingUrl, error |-> "Search fetch failed: " \o ErrorText(err),
   searchPage |-> i, type |-> "search"]

\* the entry pushed by the catch block of the fetch of a result page
SearchFailure(bingUrl, err, i) ==
  [url |-> bingUrl, error |-> "Search fetch failed: " \o ErrorText(err),
   searchPage |-> i + 1, type |-> "search"]

\* the fetch of the result page of query qi threw err
SerpFetchThrows(err) ==
  /\ FetchSettled
  /\ InQuery
  /\ sleeps' = SleepsAfter(qi, sleeps)
  /\ failedUrls' = Append(failedUrls, SearchFailure(BingUrl(Queries[qi + 1]), err, qi))
  /\ serpLog' = Append(serpLog, [qi |-> qi, query |-> Queries[qi + 1], doc |-> 0,
                                 error |-> ErrorText(err), errName |-> err.name, links |-> 0,
                                 blockedVariant |-> FALSE])
  /\ qi' = qi + 1
  /\ UNCHANGED <<req, pc, links, li, captcha, snippetHREmails, snippetGeneralEmails,
                 pageHREmails, pageGeneralEmails, scrapedUrls, allSearchUrls, totalVisited,
                 captchaTriggered, bingBlockedEveryQuery, fallbackUsed, hrEmails,
                 generalEmails, emailRegexLastIndex, pageLog, fallbackLog, debug,
                 response, history, callVars>>

\* the query loop ends: no query is left, or the budget is used up
QueryLoopExit ==
  /\ pc = "query"
  /\ qi >= Len(Queries) \/ BudgetExhausted(totalVisited, req.globalUrlBudget)
  /\ AfterLoop
  /\ UNCHANGED <<req, qi, links, li, captcha, snippetHREmails, snippetGeneralEmails,
                 pageHREmails, pageGeneralEmails, scrapedUrls, failedUrls, allSearchUrls,
                 totalVisited, captchaTriggered, bingBlockedEveryQuery, fallbackUsed,
                 emailRegexLastIndex, sleeps, serpLog, pageLog, fallbackLog, response,
                 phase, stalled, history,
                 callVars>>

\* the counter moved to the end of the try block, where a visit that failed
\* does not reach it
VisitedNext_onSuccess(n, failed) == IF failed THEN n ELSE n + 1

\* totalVisited++, the first statement of the try block of a page visit,
\* whether the visit fails afterwards or not
VisitedNext(n, failed) == n + 1

\* every link of the result page is a candidate
PageCandidates_all(found, maxUrlsPerQuery) == found

\* links.slice(0, maxUrlsPerQuery), the links the page loop goes over
PageCandidates(found, maxUrlsPerQuery) == Slice(found, maxUrlsPerQuery)

InPages ==
  /\ pc = "pages"
  /\ li < Len(PageCandidates(links, req.maxUrlsPerQuery))
  /\ ~BudgetExhausted(totalVisited, req.globalUrlBudget)

\* a catch block that swallows the failure of a page visit
PageFailure_silent(finalUrl, err) ==
  /\ UNCHANGED failedUrls
  /\ debug' = DebugPageError(debug)

\* the catch block of a page visit
PageFailure(finalUrl, err) ==
  /\ failedUrls' = Append(failedUrls,
                          [url |-> finalUrl, error |-> ErrorText(err),
                           searchPage |-> qi + 1, type |-> "page"])
  /\ debug' = DebugPageError(debug)

\* the try block of a page visit once the response is there
PageSuccess(finalUrl, done) ==
  /\ pageHREmails' = done.st.hr
  /\ pageGeneralEmails' = done.st.general
  /\ emailRegexLastIndex' = done.st.lastIndex
  /\ debug' = DebugPageFetched(debug)
  /\ scrapedUrls' = Append(scrapedUrls,
                           [url |-> finalUrl, searchPage |-> qi + 1,
                            isHRPage |-> IsLikelyHRPage(finalUrl, done.title),
                            emailCount |-> [hr |-> done.st.hrAdded,
                                            general |-> done.st.generalAdded,
                                            total |-> done.st.hrAdded + done.st.generalAdded]])

HttpError(status) == [name |-> "Error", message |-> "HTTP " \o ToString(status)]

\* pageResp.ok
ResponseOk(status) == status >= 200 /\ status <= 299

\* the fetch of the next link returned the page PagePool[p]
PageFetched(p) ==
  /\ FetchSettled
  /\ InPages
  /\ \E finalUrl \in {ResolveBingRedirect(links[li + 1])} :
       /\ allSearchUrls' = Append(allSearchUrls, finalUrl)
       /\ IF ResponseOk(PagePool[p].status)
          THEN /\ PageSuccess(finalUrl, ProcessPage(PagePool[p], pageHREmails, pageGeneralEmails,
                                                    emailRegexLastIndex, req.hrFocus))
               /\ pageLog' = Append(pageLog, [qi |-> qi, url |-> finalUrl, page |-> p,
                                              error |-> "", errName |-> "",
                                              lastIndex |-> emailRegexLastIndex])
               /\ UNCHANGED failedUrls
          ELSE /\ PageFailure(finalUrl, HttpError(PagePool[p].status))
               /\ pageLog' = Append(pageLog, [qi |-> qi, url |-> finalUrl, page |-> p,
                                              error |-> ErrorText(HttpError(PagePool[p].status)),
                                              errName |-> HttpError(PagePool[p].status).name,
                                              lastIndex |-> emailRegexLastIndex])
               /\ UNCHANGED <<pageHREmails, pageGeneralEmails, emailRegexLastIndex, scrapedUrls>>
  /\ totalVisited' = VisitedNext(totalVisited, ~ResponseOk(PagePool[p].status))
  /\ li' = li + 1
  /\ UNCHANGED <<req, pc, qi, links, captcha, snippetHREmails, snippetGeneralEmails,
                 captchaTriggered, bingBlockedEveryQuery, fallbackUsed, hrEmails,
                 generalEmails, sleeps, serpLog, fallbackLog, response, history, callVars>>

\* the fetch of the next link threw err
PageFetchThrows(err) ==
  /\ FetchSettled
  /\ InPages
  /\ \E finalUrl \in {ResolveBingRedirect(links[li + 1])} :
       /\ allSearchUrls' = Append(allSearchUrls, finalUrl)
       /\ pageLog' = Append(pageLog, [qi |-> qi, url |-> finalUrl, page |-> 0,
                                      error |-> ErrorText(err), errName |-> err.name,
                                      lastIndex |-> emailRegexLastIndex])
       /\ PageFailure(finalUrl, err)
  /\ totalVisited' = VisitedNext(totalVisited, TRUE)
  /\ li' = li + 1
  /\ UNCHANGED <<req, pc, qi, links, captcha, snippetHREmails, snippetGeneralEmails,
                 pageHREmails, pageGeneralEmails, scrapedUrls, captchaTriggered,
                 bingBlockedEveryQuery, fallbackUsed, hrEmails, generalEmails,
                 emailRegexLastIndex, sleeps, serpLog, fallbackLog, response, history, callVars>>

\* the loop over the links of query qi ends; the query loop goes on or breaks
PagesDone ==
  /\ pc = "pages"
  /\ li >= Len(PageCandidates(links, req.maxUrlsPerQuery))
       \/ BudgetExhausted(totalVisited, req.globalUrlBudget)
  /\ IF StopAfterQuery(captcha)
     THEN AfterLoop /\ UNCHANGED qi
     ELSE qi' = qi + 1 /\ pc' = "query" /\ UNCHANGED <<hrEmails, generalEmails, debug>>
  /\ UNCHANGED <<req, links, li, captcha, snippetHREmails, snippetGeneralEmails,
                 pageHREmails, pageGeneralEmails, scrapedUrls, failedUrls, allSearchUrls,
                 totalVisited, captchaTriggered, bingBlockedEveryQuery, fallbackUsed,
                 emailRegexLastIndex, sleeps, serpLog, pageLog, fallbackLog, response,
                 phase, stalled, history,
                 callVars>>

\* the snippet sets replaced by the result of the fallback
FallbackMerged_overwrite(fallback) ==
  /\ snippetHREmails' = fallback.snippetHr
  /\ snippetGeneralEmails' = fallback.snippetGeneral
  /\ Return(fallback.snippetHr, fallback.snippetGeneral,
            FinalHrEmails(fallback.snippetHr, pageHREmails),
            DebugFallbackResult(debug, fallback), TRUE)

\* the merge of the result of the fallback, and the return
FallbackMerged(fallback) ==
  LET snHr == SetAddAll(snippetHREmails, fallback.snippetHr)
      snGen == SetAddAll(snippetGeneralEmails, fallback.snippetGeneral)
  IN /\ snippetHREmails' = snHr
     /\ snippetGeneralEmails' = snGen
     /\ Return(snHr, snGen, FinalHrEmails(snHr, pageHREmails),
               DebugFallbackResult(debug, fallback), TRUE)

\* the fetch of duckDuckGoFallback returned the page DuckPool[d]
FallbackFetched(d) ==
  /\ FetchSettled
  /\ pc = "fallback"
  /\ \E fallback \in {DuckDuckGoFallback(DuckPool[d], req.maxUrlsPerQuery, req.hrFocus,
                                         emailRegexLastIndex)} :
       /\ emailRegexLastIndex' = fallback.lastIndex
       /\ FallbackMerged(fallback)
  /\ fallbackUsed' = TRUE
  /\ fallbackLog' = Append(fallbackLog, [doc |-> d, error |-> "", after |-> Len(serpLog)])
  /\ UNCHANGED <<req, qi, links, li, captcha, pageHREmails, pageGeneralEmails, scrapedUrls,
                 failedUrls, allSearchUrls, totalVisited, captchaTriggered,
                 bingBlockedEveryQuery, sleeps, serpLog, pageLog, response, history, callVars>>

\* the fetch of duckDuckGoFallback threw err
FallbackThrows(err) ==
  /\ FetchSettled
  /\ pc = "fallback"
  /\ fallbackLog' = Append(fallbackLog, [doc |-> 0, error |-> err.message, after |-> Len(serpLog)])
  /\ Return(snippetHREmails, snippetGeneralEmails, FinalHrEmails(snippetHREmails, pageHREmails),
            DebugFallbackError(debug, err), FALSE)
  /\ UNCHANGED <<req, qi, links, li, captcha, snippetHREmails, snippetGeneralEmails,
                 pageHREmails, pageGeneralEmails, scrapedUrls, failedUrls, allSearchUrls,
                 totalVisited, captchaTriggered, bingBlockedEveryQuery, fallbackUsed,
                 emailRegexLastIndex, sleeps, serpLog, pageLog, response, history, callVars>>

(***************************************************************************)
(* The routes /search and /search-all once runBingEmailHunt has returned   *)
(***************************************************************************)
\* a < b for the default comparison of Array.prototype.sort on strings: by
\* code unit at the first position where they differ, else by length
StringLess(a, b) ==
  LET n == IF Len(a) < Len(b) THEN Len(a) ELSE Len(b)
      diff == {i \in 1..n : CharAt(a, i) # CharAt(b, i)}
  IN IF diff = {} THEN Len(a) < Len(b)
     ELSE ByteOfChar(CharAt(a, Min(diff))) < ByteOfChar(CharAt(b, Min(diff)))

\* e inserted into the sorted sequence seq
RECURSIVE SortedInsert(_, _)
SortedInsert(seq, e) ==
  IF Len(seq) = 0 THEN <<e>>
  ELSE IF StringLess(e, Head(seq)) THEN <<e>> \o seq
       ELSE <<Head(seq)>> \o SortedInsert(Tail(seq), e)

\* Array.prototype.sort() without a comparison function
RECURSIVE Sort(_)
Sort(seq) == IF Len(seq) = 0 THEN <<>> ELSE SortedInsert(Sort(Tail(seq)), Head(seq))

\* the merged listing left as concatenated
Ordered_unsorted(focus, hr, general) == hr \o general

\* const ordered = focus ? [...hrEmails, ...generalEmails] : [...].sort()
Ordered(focus, hr, general) == IF focus THEN hr \o general ELSE Sort(hr \o general)

\* the answer of the route: 429 on a captcha, else the payload with the
\* merged listing (emails of /search-all, allEmails of /search)
RouteAnswer(focus, triggered, hr, general) ==
  IF triggered
  THEN [status |-> 429, error |-> "Captcha detected", needsCaptcha |-> TRUE]
  ELSE [status |-> 200, emails |-> Ordered(focus, hr, general)]

Respond ==
  /\ pc = "done"
  /\ pc' = "responded"
  /\ response' = << RouteAnswer(req.hrFocus, captchaTriggered, hrEmails, generalEmails) >>
  /\ UNCHANGED <<req, qi, links, li, captcha, snippetHREmails, snippetGeneralEmails,
                 pageHREmails, pageGeneralEmails, scrapedUrls, failedUrls, allSearchUrls,
                 totalVisited, captchaTriggered, bingBlockedEveryQuery, fallbackUsed,
                 hrEmails, generalEmails, emailRegexLastIndex, sleeps, serpLog, pageLog,
                 fallbackLog, debug, phase, stalled, history,
                 callVars>>

Next ==
  \/ \E d \in ShortSerps : SerpFetched(d)
  \/ \E err \in FetchErrors : SerpFetchThrows(err)
  \/ QueryLoopExit
  \/ \E p \in 1..Len(PagePool) : PageFetched(p)
  \/ \E err \in FetchErrors : PageFetchThrows(err)
  \/ PagesDone
  \/ \E d \in 1..Len(DuckPool) : FallbackFetched(d)
  \/ \E err \in FetchErrors : FallbackThrows(err)
  \/ Respond

Spec == Init /\ [][Next]_vars

(***************************************************************************)
(* Properties of runBingEmailHunt                                          *)
(***************************************************************************)
\* the result pages of the pool whose markup holds both a captcha keyword
\* and the container marker b_captcha
CaptchaDocs ==
  {d \in 1..Len(SerpPool) :
     /\ Includes(ToLowerCase(SerpPool[d].html), "captcha")
     /\ Includes(SerpPool[d].html, "b_captcha")}

\* C1: the number of page fetches performed, totalVisited, never exceeds
\* globalUrlBudget, whatever the number of links discovered and whatever
\* the mix of page fetches that succeed and fail.
BudgetNeverExceeded ==
  /\ totalVisited = Len(pageLog)
  /\ totalVisited <= req.globalUrlBudget

\* the budget is used up by a success and a failure while discovered links
\* are still unvisited
BudgetReachedWithLinksLeft ==
  /\ pc = "pages"
  /\ totalVisited = req.globalUrlBudget
  /\ Len(links) > li
  /\ \E k \in 1..Len(pageLog) : pageLog[k].error = ""
  /\ \E k \in 1..Len(pageLog) : pageLog[k].error # ""

\* C2: a fetched result page whose markup holds a captcha keyword and the
\* marker b_captcha makes the run report captchaTriggered = TRUE, and it is
\* the last result page fetched from the primary engine: the query loop is
\* never entered again after it.
CaptchaIsLastSerpFetch ==
  \A i \in 1..Len(serpLog) :
    serpLog[i].doc \in CaptchaDocs =>
      /\ i = Len(serpLog)
      /\ captchaTriggered
      /\ pc # "query"

\* a run ended by a captcha page with queries and budget left
CaptchaEndedRun ==
  /\ pc = "done"
  /\ Len(serpLog) > 0
  /\ serpLog[Len(serpLog)].doc \in CaptchaDocs
  /\ Len(serpLog) < Len(Queries)
  /\ totalVisited < req.globalUrlBudget
  /\ captchaTriggered

\* no result page of the run is captcha-suspect and every fetch of the
\* primary engine, failed ones included, gave zero links
NoLinksNoCaptcha ==
  \A i \in 1..Len(serpLog) : serpLog[i].doc \notin CaptchaDocs /\ serpLog[i].links = 0

\* C3: in a run where no result page is captcha-suspect and every query
\* gives zero links (a failed fetch included), duckDuckGoFallback is called
\* exactly once, after the last query of the primary engine.
FallbackOnceAfterLastQuery ==
  /\ Len(fallbackLog) <= 1
  /\ (pc = "done" /\ NoLinksNoCaptcha) =>
       /\ Len(fallbackLog) = 1
       /\ Len(serpLog) = Len(Queries)
       /\ fallbackLog[1].after = Len(Queries)

\* a finished run of two queries, one whose fetch failed and one whose
\* result page has no link, followed by the fallback
FallbackAfterTwoEmptyQueries ==
  /\ pc = "done"
  /\ NoLinksNoCaptcha
  /\ Len(serpLog) = 2
  /\ \E i \in 1..2 : serpLog[i].error # ""
  /\ \E i \in 1..2 : serpLog[i].doc # 0
  /\ Len(fallbackLog) = 1

\* C4: with hrFocus = TRUE the returned hrEmails and generalEmails are
\* disjoint, and no address that starts with a generic role prefix is in
\* either list.
HrFocusListsDisjointNoGeneric ==
  (pc = "done" /\ req.hrFocus) =>
    /\ Range(hrEmails) \cap Range(generalEmails) = {}
    /\ \A e \in Range(hrEmails) \cup Range(generalEmails) :
         \A i \in 1..Len(GENERIC_EXCLUDE_PREFIXES) :
           ~StartsWith(e, GENERIC_EXCLUDE_PREFIXES[i])

\* a finished run with hrFocus where one address was classified HR from a
\* snippet and general from a page that also shows a generic address
SameAddressHrAndGeneral ==
  /\ pc = "done"
  /\ req.hrFocus
  /\ "bob@acme.com" \in Range(hrEmails)
  /\ "bob@acme.com" \in Range(pageGeneralEmails)
  /\ \E k \in 1..Len(pageLog) :
       /\ pageLog[k].error = ""
       /\ Includes(PagePool[pageLog[k].page].body, "info@acme.com")

\* C6: the fetches of the primary engine are for a prefix of the output of
\* buildBingQueries, in its order: at most maxQueries queries, only the
\* first maxQueries entries, each fetched at most once.
SerpFetchesArePrefixOfBuilder ==
  \A i \in 1..Len(serpLog) :
    /\ i <= req.maxQueries
    /\ serpLog[i].qi = i - 1
    /\ i <= Len(BuildBingQueries(req.query, req.hrFocus, req.country))
    /\ serpLog[i].query = BuildBingQueries(req.query, req.hrFocus, req.country)[i]

\* a finished run that consumed exactly maxQueries = 2 of the eight queries
\* built, one of them with a failed fetch
TwoOfEightQueriesConsumed ==
  /\ pc = "done"
  /\ req.hrFocus
  /\ req.maxQueries = 2
  /\ Len(serpLog) = 2
  /\ Len(BuildBingQueries(req.query, req.hrFocus, req.country)) = 8
  /\ \E i \in 1..2 : serpLog[i].error # ""

\* C10: every mailto anchor of a visited page whose address, without the
\* scheme and the query string, matches the strict pattern is classified
\* and merged into the page accumulators, whatever anchors come before it
\* on the page or on earlier pages.
EveryStrictMailtoMerged ==
  \A k \in 1..Len(pageLog) :
    pageLog[k].error = "" =>
      \A a \in 1..Len(PagePool[pageLog[k].page].mailtos) :
        LET mail == MailOf(PagePool[pageLog[k].page].mailtos[a])
        IN (/\ mail # ""
            /\ RegExpExec(mail, 0).found
            /\ ~(req.hrFocus /\ HasGenericPrefix(mail)))
             => mail \in Range(pageHREmails) \cup Range(pageGeneralEmails)

\* the last fetch of the primary engine just failed
SerpFetchJustFailed ==
  /\ Len(serpLog') = Len(serpLog) + 1
  /\ serpLog'[Len(serpLog')].error # ""

\* C11: when the fetch of the result page of query i fails, exactly one
\* entry of type "search" with searchPage i + 1 is appended to failedUrls,
\* no page is visited for that query, and the run goes on with query i + 1.
SerpFailureRecordedAndRunContinues ==
  [][SerpFetchJustFailed =>
       /\ Len(failedUrls') = Len(failedUrls) + 1
       /\ SubSeq(failedUrls', 1, Len(failedUrls)) = failedUrls
       /\ failedUrls'[Len(failedUrls')].type = "search"
       /\ failedUrls'[Len(failedUrls')].searchPage = qi + 1
       /\ failedUrls'[Len(failedUrls')].url = BingUrl(serpLog'[Len(serpLog')].query)
       /\ \A k \in 1..Len(pageLog') : pageLog'[k].qi # qi
       /\ totalVisited' = totalVisited
       /\ pc' = "query"
       /\ qi' = qi + 1]_vars

\* the fetch of the first query failed, the second query was fetched and one
\* of its links visited
RunContinuedAfterSerpFailure ==
  /\ Len(serpLog) = 2
  /\ serpLog[1].error # ""
  /\ serpLog[2].error = ""
  /\ \E k \in 1..Len(pageLog) : pageLog[k].qi = 1
  /\ Len(failedUrls) >= 1
  /\ failedUrls[1].type = "search"
  /\ failedUrls[1].searchPage = 1

\* the last page visit just failed
PageVisitJustFailed ==
  /\ Len(pageLog') = Len(pageLog) + 1
  /\ pageLog'[Len(pageLog')].error # ""

\* C12: when a page visit fails (network error, timeout or non-success
\* status), exactly one entry of type "page" is appended to failedUrls for
\* that URL, no email of the page is merged, no scrapedUrls entry is added,
\* and the loop over the links of the same query goes on.
PageFailureRecordedAndRunContinues ==
  [][PageVisitJustFailed =>
       /\ Len(failedUrls') = Len(failedUrls) + 1
       /\ SubSeq(failedUrls', 1, Len(failedUrls)) = failedUrls
       /\ failedUrls'[Len(failedUrls')].type = "page"
       /\ failedUrls'[Len(failedUrls')].url = pageLog'[Len(pageLog')].url
       /\ failedUrls'[Len(failedUrls')].url = ResolveBingRedirect(links[li + 1])
       /\ failedUrls'[Len(failedUrls')].searchPage = qi + 1
       /\ pageHREmails' = pageHREmails
       /\ pageGeneralEmails' = pageGeneralEmails
       /\ scrapedUrls' = scrapedUrls
       /\ pc' = "pages" /\ qi' = qi /\ li' = li + 1]_vars

\* a page visit that answered 404 was followed by a successful visit of the
\* next link of the same query
NextLinkVisitedAfterHttpError ==
  \E k \in 1..Len(pageLog) :
    /\ k < Len(pageLog)
    /\ pageLog[k].error = "HTTP 404"
    /\ pageLog[k + 1].error = ""
    /\ pageLog[k + 1].qi = pageLog[k].qi
    /\ Len(scrapedUrls) = 1
    /\ \E f \in 1..Len(failedUrls) :
         failedUrls[f].type = "page" /\ failedUrls[f].url = pageLog[k].url

\* C14: the failure recorded for a request of a result page or of a page
\* that was aborted by its timeout is "timeout", and a failure that is not
\* a timeout is never recorded as "timeout".
TimeoutRecordedAsTimeout ==
  /\ \A i \in 1..Len(serpLog) :
       serpLog[i].errName # "" =>
         \E f \in 1..Len(failedUrls) :
           /\ failedUrls[f].type = "search"
           /\ failedUrls[f].searchPage = i
           /\ (serpLog[i].errName = "AbortError"
                 <=> failedUrls[f].error = "Search fetch failed: timeout")
  /\ \A k \in 1..Len(pageLog) :
       pageLog[k].errName # "" =>
         (pageLog[k].errName = "AbortError" <=> pageLog[k].error = "timeout")
  /\ Len(SelectSeq(failedUrls, LAMBDA f : f.type = "page"))
       = Len(SelectSeq(pageLog, LAMBDA e : e.errName # ""))
  /\ \A k \in 1..Len(SelectSeq(pageLog, LAMBDA e : e.errName # "")) :
       SelectSeq(failedUrls, LAMBDA f : f.type = "page")[k].error
         = SelectSeq(pageLog, LAMBDA e : e.errName # "")[k].error

\* a run with a timed-out search fetch, a timed-out page visit and a page
\* visit that failed for another reason
TimeoutsAndOtherFailures ==
  /\ \E i \in 1..Len(serpLog) : serpLog[i].errName = "AbortError"
  /\ \E k \in 1..Len(pageLog) : pageLog[k].errName = "AbortError"
  /\ \E k \in 1..Len(pageLog) : pageLog[k].errName \notin {"", "AbortError"}

\* C18: once a result page is detected as captcha-suspect no page is
\* visited, neither for the links of that result page nor for a later
\* query: totalVisited, scrapedUrls and allSearchUrls stay as they were at
\* the detection.
NoVisitAfterCaptchaDetection ==
  [][(captcha /\ pc = "pages") =>
       /\ totalVisited' = totalVisited
       /\ scrapedUrls' = scrapedUrls
       /\ allSearchUrls' = allSearchUrls]_vars

\* C19: the secondary engine is queried in no run with captchaTriggered =
\* TRUE and in no run where some query gave at least one link.
FallbackOnlyWithoutCaptchaAndLinks ==
  Len(fallbackLog) > 0 =>
    /\ ~captchaTriggered
    /\ \A i \in 1..Len(serpLog) : serpLog[i].links = 0

\* a step of the fallback: the request to the secondary engine returns or
\* throws
FallbackStep == pc = "fallback" /\ pc' # "fallback"

\* C20: the fallback step issues exactly one request to the secondary
\* engine and visits no page: totalVisited, scrapedUrls, failedUrls,
\* allSearchUrls and the page sets are unchanged, and the snippet sets can
\* only grow.
FallbackStepFrame ==
  [][FallbackStep =>
       /\ Len(fallbackLog') = Len(fallbackLog) + 1
       /\ Len(fallbackLog') = 1
       /\ pc' = "done"
       /\ totalVisited' = totalVisited
       /\ pageLog' = pageLog
       /\ scrapedUrls' = scrapedUrls
       /\ failedUrls' = failedUrls
       /\ allSearchUrls' = allSearchUrls
       /\ pageHREmails' = pageHREmails
       /\ pageGeneralEmails' = pageGeneralEmails
       /\ Range(snippetHREmails) \subseteq Range(snippetHREmails')
       /\ Range(snippetGeneralEmails) \subseteq Range(snippetGeneralEmails')]_vars

\* a finished run whose fallback added an address to snippet sets that
\* already held one
FallbackGrewSnippetSets ==
  /\ pc = "done"
  /\ Len(fallbackLog) = 1
  /\ fallbackLog[1].error = ""
  /\ "privacy@acme.com" \in Range(snippetGeneralEmails)
  /\ "jobs@acme.ma" \in Range(snippetHREmails)
  /\ totalVisited = 0

\* the request to the secondary engine just failed
FallbackJustFailed ==
  /\ Len(fallbackLog') = Len(fallbackLog) + 1
  /\ fallbackLog'[Len(fallbackLog')].error # ""

\* C13: when the fallback fails the run still returns: the email
\* accumulators, scrapedUrls, failedUrls and allSearchUrls are as before
\* the attempt, and the failure shows in debug.fallback, and only there,
\* exactly when collectDebug is true.
FallbackFailureOnlyInDebug ==
  [][FallbackJustFailed =>
       /\ pc' = "done"
       /\ snippetHREmails' = snippetHREmails
       /\ snippetGeneralEmails' = snippetGeneralEmails
       /\ pageHREmails' = pageHREmails
       /\ pageGeneralEmails' = pageGeneralEmails
       /\ scrapedUrls' = scrapedUrls
       /\ failedUrls' = failedUrls
       /\ allSearchUrls' = allSearchUrls
       /\ hrEmails' = Dedupe(snippetHREmails \o pageHREmails)
       /\ req.collectDebug =>
            debug'[1].fallback = << [engine |-> "duckduckgo",
                                     error |-> fallbackLog'[Len(fallbackLog')].error] >>
       /\ ~req.collectDebug => debug' = <<>>]_vars

\* a run with collectDebug that ended after a failed fallback with an
\* address gathered before it
FailedFallbackWithDebug ==
  /\ pc = "done"
  /\ req.collectDebug
  /\ Len(fallbackLog) = 1
  /\ fallbackLog[1].error # ""
  /\ Len(snippetGeneralEmails) > 0
  /\ Len(generalEmails) > 0
  /\ Len(failedUrls) > 0

\* C15: in the merged listing of the answer every HR address precedes
\* every general address when hrFocus is true, and the listing is sorted
\* lexicographically when hrFocus is false.
MergedListingOrder ==
  (pc = "responded" /\ response[1].status = 200) =>
    LET ordered == response[1].emails
    IN /\ Range(ordered) = Range(hrEmails) \cup Range(generalEmails)
       /\ Len(ordered) = Len(hrEmails) + Len(generalEmails)
       /\ req.hrFocus =>
            \A i, j \in 1..Len(ordered) :
              (ordered[i] \in Range(hrEmails) /\ ordered[j] \in Range(generalEmails)) => i < j
       /\ ~req.hrFocus =>
            \A i, j \in 1..Len(ordered) : i < j => ~StringLess(ordered[j], ordered[i])

\* an answer without hrFocus whose HR and general lists, put one after the
\* other, are not in order
SortedListingAnswered ==
  /\ pc = "responded"
  /\ response[1].status = 200
  /\ ~req.hrFocus
  /\ Len(hrEmails) > 0
  /\ Len(generalEmails) > 1
  /\ StringLess(generalEmails[1], hrEmails[Len(hrEmails)])

\* C16: the route answers 429 whenever captchaTriggered is true and also
\* whenever the fallback was taken and the run ended with zero emails and
\* zero links; in every other finished run it answers with the payload.
BlockedRunsAnswered429 ==
  pc = "responded" =>
    (response[1].status = 429
       <=> \/ captchaTriggered
           \/ /\ Len(fallbackLog) > 0
              /\ Len(hrEmails) = 0 /\ Len(generalEmails) = 0
              /\ Len(allSearchUrls) = 0)

\* C21: the number of politeness delays executed is the number of fetches
\* of a result page less one (zero when none was made): no delay before the
\* first fetch, one delay between two consecutive fetches whether the
\* earlier one failed, found no link or found some, and none for a query
\* that is not fetched because the loop ended on the budget.
DelayBetweenConsecutiveSerpFetches ==
  sleeps = IF Len(serpLog) = 0 THEN 0 ELSE Len(serpLog) - 1

\* two fetches of a result page, the first of which failed, with one delay
SecondQueryFetchedAfterFailedOne ==
  /\ Len(serpLog) = 2
  /\ serpLog[1].error # ""
  /\ serpLog[2].error = ""
  /\ sleeps = 1

\* C25: the links extracted from a result page are pairwise distinct, each
\* begins with http:// or https://, none is on the domain of the search
\* engine, and there are at most 2 x maxUrlsPerQuery of them.
ExtractedLinksForeignAndCapped ==
  pc = "pages" =>
    /\ \A i, j \in 1..Len(links) : links[i] = links[j] => i = j
    /\ \A i \in 1..Len(links) :
         IsHttpUrl(links[i]) /\ ~Includes(links[i], "://www.bing.com/")
    /\ Len(links) <= 2 * req.maxUrlsPerQuery

\* the result pages of the pool without the container marker b_algo that
\* have an HTML doctype and a title ending in "- Search", and those with
\* the container marker
ShellDocs ==
  {d \in 1..Len(SerpPool) :
     /\ ~Includes(SerpPool[d].html, "b_algo")
     /\ Includes(ToLowerCase(SerpPool[d].html), "<!doctype html")
     /\ Includes(SerpPool[d].html, "- Search</title>")}

AlgoDocs == {d \in 1..Len(SerpPool) : Includes(SerpPool[d].html, "b_algo")}

\* C26: blockedVariant is true for a fetched result page without the
\* container marker that looks like a search shell page, and false for a
\* fetched result page with the container marker.
BlockedVariantFlagsShellPages ==
  \A k \in 1..Len(serpLog) :
    /\ serpLog[k].doc \in ShellDocs => serpLog[k].blockedVariant
    /\ serpLog[k].doc \in AlgoDocs => ~serpLog[k].blockedVariant

\* the page visits recorded for the query of number n (searchPage, from 1)
PageVisitsOf(n) ==
  Cardinality({k \in 1..Len(scrapedUrls) : scrapedUrls[k].searchPage = n})
    + Cardinality({k \in 1..Len(failedUrls) :
                     failedUrls[k].type = "page" /\ failedUrls[k].searchPage = n})

\* C28: for every query, the entries of scrapedUrls plus the entries of
\* type "page" of failedUrls with its searchPage are at most
\* maxUrlsPerQuery, however many links its result page yielded.
VisitsPerQueryWithinCap ==
  \A n \in 1..Len(Queries) : PageVisitsOf(n) <= req.maxUrlsPerQuery

\* a query whose result page yielded more links than maxUrlsPerQuery, left
\* after exactly maxUrlsPerQuery visits with budget to spare
QueryLeftAtCapWithLinksToSpare ==
  /\ pc = "query"
  /\ totalVisited < req.globalUrlBudget
  /\ \E k \in 1..Len(serpLog) :
       /\ serpLog[k].links > req.maxUrlsPerQuery
       /\ PageVisitsOf(serpLog[k].qi + 1) = req.maxUrlsPerQuery

\* the entries of failedUrls of type "page"
PageFailures == SelectSeq(failedUrls, LAMBDA f : f.type = "page")

\* C30: between page visits and at the end of the run, allSearchUrls has
\* totalVisited entries, which is the number of entries of scrapedUrls plus
\* the number of entries of type "page" of failedUrls, every visited URL
\* being in one of the two; the searchPage values of scrapedUrls never
\* decrease and lie between 1 and the number of queries consumed.
VisitAccounting ==
  /\ Len(allSearchUrls) = totalVisited
  /\ totalVisited = Len(scrapedUrls) + Len(PageFailures)
  /\ \A k \in 1..Len(allSearchUrls) :
       \/ \E i \in 1..Len(scrapedUrls) : scrapedUrls[i].url = allSearchUrls[k]
       \/ \E i \in 1..Len(PageFailures) : PageFailures[i].url = allSearchUrls[k]
  /\ \A i, j \in 1..Len(scrapedUrls) :
       i <= j => scrapedUrls[i].searchPage <= scrapedUrls[j].searchPage
  /\ \A i \in 1..Len(scrapedUrls) : scrapedUrls[i].searchPage \in 1..Len(serpLog)

\* a finished run with a page scraped for one query and a page visit that
\* failed for the other
ScrapedAndFailedVisitsInTwoQueries ==
  /\ pc = "done"
  /\ \E i \in 1..Len(scrapedUrls) : \E j \in 1..Len(PageFailures) :
       scrapedUrls[i].searchPage # PageFailures[j].searchPage

(***************************************************************************)
(* Direct calls of the pure functions, on inputs drawn from bounded sets   *)
(***************************************************************************)
\* the run that does not start while a function is called directly
IdleRequest ==
  [query |-> "Acme Corp", hrFocus |-> TRUE, country |-> "morocco",
   maxQueries |-> 1, maxUrlsPerQuery |-> 1, globalUrlBudget |-> 1, collectDebug |-> FALSE]

\* every concatenation of at most n of the given parts
RECURSIVE Concats(_, _)
Concats(parts, n) ==
  IF n = 0 THEN {""}
  ELSE Concats(parts, n - 1) \cup {a \o b : a \in Concats(parts, n - 1), b \in parts}

MaxWords == 2

QueryWords == {"Acme", " ", "Corp", "email contact"}

Countries == {"", "morocco", " france ", " "}

BuildInputs == [baseQuery : Concats(QueryWords, MaxWords), hrFocus : BOOLEAN, country : Countries]

InitBuild ==
  /\ HuntStart(IdleRequest) /\ emailRegexLastIndex = 0
  /\ callArgs \in BuildInputs /\ callResult = <<>> /\ called = FALSE

CallBuildBingQueries ==
  /\ ~called
  /\ called' = TRUE
  /\ callResult' = BuildBingQueries(callArgs.baseQuery, callArgs.hrFocus, callArgs.country)
  /\ UNCHANGED <<huntVars, emailRegexLastIndex, callArgs>>

NextBuild == CallBuildBingQueries

SpecBuild == InitBuild /\ [][NextBuild]_vars

MaxUrlParts == 3

UrlParts ==
  {"https://www.bing.com/ck/a?", "https://acme.com/?", "u=", "a1aHR0cDovL2EuY29t",
   "http%3A%2F%2Fa.com", "&", "p=1", "%", "httpdocs%2Findex.html"}

InitResolve ==
  /\ HuntStart(IdleRequest) /\ emailRegexLastIndex = 0
  /\ callArgs \in Concats(UrlParts, MaxUrlParts) /\ callResult = <<>> /\ called = FALSE

CallResolveBingRedirect ==
  /\ ~called
  /\ called' = TRUE
  /\ callResult' = ResolveBingRedirect(callArgs)
  /\ UNCHANGED <<huntVars, emailRegexLastIndex, callArgs>>

NextResolve == CallResolveBingRedirect

SpecResolve == InitResolve /\ [][NextResolve]_vars

\* calls of extractEmails and mailto checks on the shared EMAIL_REGEX, in any
\* order; callResult is the list of the calls of extractEmails made
MaxCalls == 2

ObfuscatedText == "contact us at john [at] example [dot] com"

Texts ==
  {"", ObfuscatedText, "Write to HR@Acme.com or hr@acme.com, info@acme.com.",
   "jane.doe@example.com", "no address here"}

MailtoHrefs == {"mailto:jane.doe@example.com?subject=Hi", "mailto:cv@acme.ma", "mailto:"}

InitExtract ==
  /\ HuntStart(IdleRequest) /\ emailRegexLastIndex = 0
  /\ callArgs = <<>> /\ callResult = <<>> /\ called = FALSE

CallExtractEmails(text) ==
  /\ Len(callResult) < MaxCalls
  /\ \E ex \in {ExtractEmails(text, emailRegexLastIndex)} :
       /\ callResult' = Append(callResult, [text |-> text, before |-> emailRegexLastIndex,
                                            emails |-> ex.emails])
       /\ emailRegexLastIndex' = ex.lastIndex
  /\ UNCHANGED <<huntVars, callArgs, called>>

\* mail && EMAIL_REGEX.test(mail), as in the mailto callback
MailtoCheck(href) ==
  /\ emailRegexLastIndex' = MailtoTest(MailOf(href), emailRegexLastIndex).lastIndex
  /\ UNCHANGED <<huntVars, callVars>>

NextExtract ==
  \/ \E text \in Texts : CallExtractEmails(text)
  \/ \E href \in MailtoHrefs : MailtoCheck(href)

SpecExtract == InitExtract /\ [][NextExtract]_vars

\* calls of classifyEmails on lists of at most MaxEmails addresses
MaxEmails == 2

Addresses ==
  {"bob@acme.com", "jane.doe@example.com", "hr@acme.com", "info@acme.com", "Sam@Acme.com"}

Contexts == {"", "Our team", "Careers at Acme"}

RECURSIVE SeqsUpTo(_, _)
SeqsUpTo(S, n) ==
  IF n = 0 THEN {<<>>}
  ELSE SeqsUpTo(S, n - 1) \cup {Append(q, e) : q \in SeqsUpTo(S, n - 1), e \in S}

ClassifyInputs == [emails : SeqsUpTo(Addresses, MaxEmails), context : Contexts, hrFocus : BOOLEAN]

InitClassify ==
  /\ HuntStart(IdleRequest) /\ emailRegexLastIndex = 0
  /\ callArgs \in ClassifyInputs /\ callResult = <<>> /\ called = FALSE

CallClassifyEmails ==
  /\ ~called
  /\ called' = TRUE
  /\ callResult' = ClassifyEmails(callArgs.emails, callArgs.context, callArgs.hrFocus)
  /\ UNCHANGED <<huntVars, emailRegexLastIndex, callArgs>>

NextClassify == CallClassifyEmails

SpecClassify == InitClassify /\ [][NextClassify]_vars

(***************************************************************************)
(* The routes /search and /search-all of the Bing controller, from the     *)
(* query string to the run (with a query given)                            *)
(***************************************************************************)
MAX_SINGLE_URLS == 20

MAX_MULTI_PAGES == 10

MAX_MULTI_URLS_PER_PAGE == 20

\* the value of the digits of s in the given base
RECURSIVE DigitsValue(_, _)
DigitsValue(s, base) ==
  IF Len(s) = 0 THEN 0
  ELSE DigitsValue(SubSeq(s, 1, Len(s) - 1), base) * base + HexVal(CharAt(s, Len(s)))

\* the longest prefix of s made of digits of the base
RECURSIVE DigitPrefix(_, _)
DigitPrefix(s, base) ==
  IF Len(s) > 0 /\ IsHex(CharAt(s, 1)) /\ HexVal(CharAt(s, 1)) < base
  THEN CharAt(s, 1) \o DigitPrefix(SubSeq(s, 2, Len(s)), base)
  ELSE ""

\* parseInt(str) without a radix: leading blanks, a sign, a 0x prefix for
\* base 16, then the digits; NaN when there is no digit
ParseInt(str) ==
  LET t == TrimStart(str)
      signed == Len(t) > 0 /\ CharAt(t, 1) \in {"+", "-"}
      u == IF signed THEN SubSeq(t, 2, Len(t)) ELSE t
      isHex == Len(u) >= 2 /\ ToLowerCase(SubSeq(u, 1, 2)) = "0x"
      base == IF isHex THEN 16 ELSE 10
      digits == DigitPrefix(IF isHex THEN SubSeq(u, 3, Len(u)) ELSE u, base)
      magnitude == DigitsValue(digits, base)
  IN IF digits = "" THEN [nan |-> TRUE, value |-> 0]
     ELSE [nan |-> FALSE,
           value |-> IF signed /\ CharAt(t, 1) = "-" THEN 0 - magnitude ELSE magnitude]

\* parseInt of a parameter of the query string: <<>> when absent, and then
\* the default of the destructuring, else <<the text>>
ParamInt(raw, default) ==
  IF raw = <<>> THEN [nan |-> FALSE, value |-> default] ELSE ParseInt(raw[1])

\* Math.min(Math.max(p, lo), hi)
Clamp(p, lo, hi) ==
  IF p.nan THEN NaN
  ELSE IF p.value < lo THEN lo ELSE IF p.value > hi THEN hi ELSE p.value

ParamText(raw, default) == IF raw = <<>> THEN default ELSE raw[1]

\* the argument of runBingEmailHunt built by /search
SearchRequest(q) ==
  [query |-> q.query,
   hrFocus |-> ParamText(q.hrFocus, "true") = "true",
   country |-> ParamText(q.country, "morocco"),
   maxQueries |-> 3,
   maxUrlsPerQuery |-> Clamp(ParamInt(q.urls, 5), 1, MAX_SINGLE_URLS),
   globalUrlBudget |-> Clamp(ParamInt(q.urls, 5), 1, MAX_SINGLE_URLS),
   collectDebug |-> ParamText(q.debug, "") \in {"1", "true"}]

\* the argument of runBingEmailHunt built by /search-all
SearchAllRequest(q) ==
  [query |-> q.query,
   hrFocus |-> ParamText(q.hrFocus, "true") = "true",
   country |-> ParamText(q.country, "morocco"),
   maxQueries |-> Clamp(ParamInt(q.maxPages, 3), 1, MAX_MULTI_PAGES),
   maxUrlsPerQuery |-> Clamp(ParamInt(q.urlsPerPage, 5), 1, MAX_MULTI_URLS_PER_PAGE),
   globalUrlBudget |-> Clamp(ParamInt(q.maxUrls, 50), 1, 100),
   collectDebug |-> ParamText(q.debug, "") \in {"1", "true"}]

RouteRequest(q) == IF q.route = "/search" THEN SearchRequest(q) ELSE SearchAllRequest(q)

\* the query strings explored: parameters absent, numeric, out of range and
\* not numeric
SearchQueries ==
  [route : {"/search"}, query : {"Acme Corp"}, country : {<<>>}, debug : {<<>>},
   hrFocus : {<<>>, <<"false">>},
   urls : {<<>>, <<"abc">>, <<"500">>, <<"-1">>}]

SearchAllQueries ==
  [route : {"/search-all"}, query : {"Acme Corp"}, country : {<<>>}, debug : {<<>>},
   hrFocus : {<<>>, <<"false">>},
   maxPages : {<<>>, <<"10">>},
   urlsPerPage : {<<"20">>, <<"abc">>},
   maxUrls : {<<>>, <<"1000">>, <<"abc">>}]

InitRouter ==
  /\ callArgs \in SearchQueries \cup SearchAllQueries
  /\ HuntStart(RouteRequest(callArgs))
  /\ emailRegexLastIndex = 0
  /\ callResult = <<>> /\ called = FALSE

\* the pages a run on the long result page gets
PlainPages == {p \in 1..Len(PagePool) : PagePool[p].status = 200 /\ PagePool[p].body = ""}

NextRouter ==
  \/ \E d \in LongSerps : SerpFetched(d)
  \/ QueryLoopExit
  \/ \E p \in PlainPages : PageFetched(p)
  \/ PagesDone
  \/ Respond

SpecRouter == InitRouter /\ [][NextRouter]_vars

\* the number of pages visited for the query of loop index i
VisitsOfQuery(i) == Cardinality({k \in 1..Len(pageLog) : pageLog[k].qi = i})

\* C17: whatever the parameters urls, maxPages, urlsPerPage and maxUrls
\* (absent, out of range or not numeric), a run started by /search visits
\* at most 20 URLs, and a run started by /search-all issues at most 10
\* queries, visits at most 20 URLs per query and at most 100 URLs in all.
RouteCeilingsHold ==
  /\ callArgs.route = "/search" => totalVisited <= 20
  /\ callArgs.route = "/search-all" =>
       /\ Len(serpLog) <= 10
       /\ \A i \in 0..Len(serpLog) : VisitsOfQuery(i) <= 20
       /\ totalVisited <= 100

(***************************************************************************)
(* fetchWithTimeout and the reading of the body: the awaited request of a  *)
(* run goes from "idle" to "headers" when fetch is called and the timer is *)
(* set, to "body" when fetch resolves and the timer is cleared, and back   *)
(* to "idle" when the body was read or when an exception was thrown.       *)
(***************************************************************************)
\* const id = setTimeout(() => controller.abort(), timeoutMs), until
\* clearTimeout(id) after fetch has resolved or thrown
TimerSet == phase = "headers"

LiveRequests == {r \in Requests : r.hrFocus /\ ~r.collectDebug}

InitLive == (\E r \in LiveRequests : HuntStart(r)) /\ emailRegexLastIndex = 0 /\ CallIdle

\* fetchWithTimeout is called for a result page, a page or the fallback
FetchIssued ==
  /\ phase = "idle"
  /\ InQuery \/ InPages \/ pc = "fallback"
  /\ phase' = "headers"
  /\ stalled' = FALSE
  /\ UNCHANGED <<req, pc, qi, links, li, captcha, snippetHREmails, snippetGeneralEmails,
                 pageHREmails, pageGeneralEmails, scrapedUrls, failedUrls, allSearchUrls,
                 totalVisited, captchaTriggered, bingBlockedEveryQuery, fallbackUsed,
                 hrEmails, generalEmails, emailRegexLastIndex, sleeps, serpLog, pageLog,
                 fallbackLog, debug, response, history, callVars>>

\* the remote server stops sending, before or after the response headers
ServerStalls ==
  /\ phase \in {"headers", "body"}
  /\ ~stalled
  /\ stalled' = TRUE
  /\ UNCHANGED <<req, pc, qi, links, li, captcha, snippetHREmails, snippetGeneralEmails,
                 pageHREmails, pageGeneralEmails, scrapedUrls, failedUrls, allSearchUrls,
                 totalVisited, captchaTriggered, bingBlockedEveryQuery, fallbackUsed,
                 hrEmails, generalEmails, emailRegexLastIndex, sleeps, serpLog, pageLog,
                 fallbackLog, debug, response, phase, history, callVars>>

\* fetch resolves with the response: clearTimeout(id); return res
HeadersArrive ==
  /\ phase = "headers"
  /\ ~stalled
  /\ phase' = "body"
  /\ UNCHANGED <<req, pc, qi, links, li, captcha, snippetHREmails, snippetGeneralEmails,
                 pageHREmails, pageGeneralEmails, scrapedUrls, failedUrls, allSearchUrls,
                 totalVisited, captchaTriggered, bingBlockedEveryQuery, fallbackUsed,
                 hrEmails, generalEmails, emailRegexLastIndex, sleeps, serpLog, pageLog,
                 fallbackLog, debug, response, stalled, history, callVars>>

\* the timer fires while it is set: controller.abort() makes fetch throw an
\* AbortError
TimerFires ==
  /\ TimerSet
  /\ \/ SerpFetchThrows(AbortError)
     \/ PageFetchThrows(AbortError)
     \/ FallbackThrows(AbortError)

\* the connection fails while the server is still there
ConnectionFails ==
  /\ phase \in {"headers", "body"}
  /\ ~stalled
  /\ \/ SerpFetchThrows(NetworkError)
     \/ PageFetchThrows(NetworkError)
     \/ FallbackThrows(NetworkError)

\* await resp.text() returns the body (for a page: of a response that is
\* ok; the others throw before the body is read)
BodyRead ==
  /\ phase = "body"
  /\ ~stalled
  /\ \/ \E d \in ShortSerps : SerpFetched(d)
     \/ \E p \in 1..Len(PagePool) : ResponseOk(PagePool[p].status) /\ PageFetched(p)
     \/ \E d \in 1..Len(DuckPool) : FallbackFetched(d)

\* if (!pageResp.ok) throw new Error(...), once fetch has resolved
ErrorStatusRead ==
  /\ phase = "body"
  /\ \E p \in 1..Len(PagePool) : ~ResponseOk(PagePool[p].status) /\ PageFetched(p)

\* the steps of the run between two awaited requests
LoopStep == phase = "idle" /\ (QueryLoopExit \/ PagesDone)

NextLive ==
  \/ FetchIssued
  \/ ServerStalls
  \/ HeadersArrive
  \/ TimerFires
  \/ ConnectionFails
  \/ BodyRead
  \/ ErrorStatusRead
  \/ LoopStep

\* WF_vars(TimerFires) and WF_vars(BodyRead), written with what ENABLED
\* is for them: TimerFires can happen exactly while the timer is set and
\* BodyRead exactly while a server that has not stopped sends the body,
\* and either step ends that condition
TimerFairness == []<>(~TimerSet)

BodyFairness == []<>(~(phase = "body" /\ ~stalled))

\* the run itself goes on whenever it can, the timer fires when it is set,
\* and a server that has not stopped goes on sending
SpecLive ==
  /\ InitLive /\ [][NextLive]_vars
  /\ WF_vars(FetchIssued) /\ WF_vars(LoopStep) /\ WF_vars(HeadersArrive)
  /\ TimerFairness /\ BodyFairness

\* C22: every request in flight completes or is cancelled by its timer, the
\* reading of the body included, so that every run reaches the end and
\* returns, even when a remote server stops responding at any point of a
\* response.
EveryRunReturns == <>(pc = "done")

(***************************************************************************)
(* Runs one after the other in the same process: the accumulators of a run *)
(* are local to its call, EMAIL_REGEX is an object of the module           *)
(***************************************************************************)
\* number of runs of the process
MaxRuns == 2

RunRequests ==
  {r \in Requests : r.maxQueries = 1 /\ r.maxUrlsPerQuery = 1 /\ r.globalUrlBudget = 1
                      /\ ~r.collectDebug}

InitRuns == (\E r \in RunRequests : HuntStart(r)) /\ emailRegexLastIndex = 0 /\ CallIdle

\* what a run was given, its request and the responses of the network in
\* the order it received them, and what it returned
RunSummary ==
  [req |-> req,
   serps |-> [k \in 1..Len(serpLog) |-> [doc |-> serpLog[k].doc, error |-> serpLog[k].error]],
   pages |-> [k \in 1..Len(pageLog) |-> [page |-> pageLog[k].page, error |-> pageLog[k].error]],
   fallbacks |-> [k \in 1..Len(fallbackLog) |->
                    [doc |-> fallbackLog[k].doc, error |-> fallbackLog[k].error]],
   hrEmails |-> hrEmails,
   generalEmails |-> generalEmails]

\* the next request arrives once the route has answered: runBingEmailHunt
\* is called again, with new accumulators and the same EMAIL_REGEX
NextRun(r) ==
  /\ pc = "responded"
  /\ Len(history) + 1 < MaxRuns
  /\ history' = Append(history, RunSummary)
  /\ req' = r
  /\ pc' = "query" /\ qi' = 0 /\ links' = <<>> /\ li' = 0 /\ captcha' = FALSE
  /\ snippetHREmails' = <<>> /\ snippetGeneralEmails' = <<>>
  /\ pageHREmails' = <<>> /\ pageGeneralEmails' = <<>>
  /\ scrapedUrls' = <<>> /\ failedUrls' = <<>> /\ allSearchUrls' = <<>>
  /\ totalVisited' = 0 /\ captchaTriggered' = FALSE /\ bingBlockedEveryQuery' = TRUE
  /\ fallbackUsed' = FALSE /\ hrEmails' = <<>> /\ generalEmails' = <<>>
  /\ sleeps' = 0 /\ serpLog' = <<>> /\ pageLog' = <<>> /\ fallbackLog' = <<>>
  /\ debug' = DebugStart(r) /\ response' = <<>>
  /\ UNCHANGED <<emailRegexLastIndex, phase, stalled, callVars>>

NextRuns ==
  \/ \E d \in 1..Len(SerpPool) : SerpFetched(d)
  \/ QueryLoopExit
  \/ \E p \in 1..Len(PagePool) : PageFetched(p)
  \/ PagesDone
  \/ \E d \in 1..Len(DuckPool) : FallbackFetched(d)
  \/ Respond
  \/ \E r \in RunRequests : NextRun(r)

SpecRuns == InitRuns /\ [][NextRuns]_vars

\* the runs answered so far, the current one included once it is answered
AnsweredRuns == IF pc = "responded" THEN Append(history, RunSummary) ELSE history

\* C27: two runs given the same request and the same responses return the
\* same hrEmails and the same generalEmails, whatever runs the process has
\* executed before them.
SameInputsSameResult ==
  \A i, j \in 1..Len(AnsweredRuns) :
    (/\ AnsweredRuns[i].req = AnsweredRuns[j].req
     /\ AnsweredRuns[i].serps = AnsweredRuns[j].serps
     /\ AnsweredRuns[i].pages = AnsweredRuns[j].pages
     /\ AnsweredRuns[i].fallbacks = AnsweredRuns[j].fallbacks)
    => /\ AnsweredRuns[i].hrEmails = AnsweredRuns[j].hrEmails
       /\ AnsweredRuns[i].generalEmails = AnsweredRuns[j].generalEmails

(***************************************************************************)
(* Properties of the pure functions                                        *)
(***************************************************************************)
\* C5: the list returned by buildBingQueries has no duplicate, its first
\* two entries are the two core phrases built from the trimmed term and
\* the geography, and every HR phrase comes after them.
CoreQueriesFirstNoDuplicates ==
  called =>
    LET q == Trim(callArgs.baseQuery)
        geo == IF callArgs.country = "" THEN "morocco" ELSE Trim(callArgs.country)
    IN /\ \A i, j \in 1..Len(callResult) : callResult[i] = callResult[j] => i = j
       /\ Len(callResult) >= 2
       /\ callResult[1] = "\"" \o q \o "\" email contact " \o geo
       /\ callResult[2] = "\"" \o q \o "\" (\"email us\" OR \"contact us\") " \o geo
       /\ \A i \in 1..Len(callResult) :
            callResult[i] \in Range(HrQueries(q, geo)) => i > 2
       /\ callArgs.hrFocus => \A h \in Range(HrQueries(q, geo)) : h \in Range(callResult)

\* a call with hrFocus, a term with blanks around it and a country
BuiltEightQueries ==
  /\ called
  /\ callArgs.hrFocus
  /\ callArgs.baseQuery # Trim(callArgs.baseQuery)
  /\ Trim(callArgs.baseQuery) # ""
  /\ callArgs.country = " france "
  /\ Len(callResult) = 8

\* C7: resolveBingRedirect returns its argument unchanged for every URL
\* that does not contain bing.com/ck/a?.
NonWrapperUrlUnchanged ==
  (called /\ ~Includes(callArgs, "bing.com/ck/a?")) => callResult = callArgs

\* a call on a URL of another site that carries a parameter u with an
\* encoded http target
NonWrapperUrlWithTarget ==
  /\ called
  /\ ~Includes(callArgs, "bing.com/ck/a?")
  /\ Includes(callArgs, "?u=http%3A%2F%2Fa.com")
  /\ callResult = callArgs

\* C8: two calls of extractEmails on the same text give the same list,
\* whatever uses of the shared pattern, mailto checks included, ran before
\* or between them.
ExtractEmailsIdempotent ==
  \A i, j \in 1..Len(callResult) :
    callResult[i].text = callResult[j].text => callResult[i].emails = callResult[j].emails

\* the same text extracted twice with addresses found, the second time
\* after a mailto check left lastIndex of the shared pattern above 0
ExtractedTwiceAcrossMailtoCheck ==
  \E i, j \in 1..Len(callResult) :
    /\ i < j
    /\ callResult[i].text = callResult[j].text
    /\ callResult[i].before = 0
    /\ callResult[j].before > 0
    /\ Len(callResult[j].emails) > 1

\* C9: extraction on text with an address written with bracketed at and
\* dot tokens, "contact us at john [at] example [dot] com", yields
\* john@example.com among the candidates.
ObfuscatedAddressExtracted ==
  \A i \in 1..Len(callResult) :
    callResult[i].text = ObfuscatedText => "john@example.com" \in Range(callResult[i].emails)

\* C23: an address whose local part does not start with a generic role
\* prefix is filed as HR exactly when it contains an HR keyword, or has the
\* firstname.lastname@ shape and hrFocus is true or the context contains an
\* HR keyword; otherwise it is filed as general, so an address with neither
\* keyword nor shape is general whatever hrFocus and the context are.
NonGenericFiledByKeywordOrNameShape ==
  called =>
    \A i \in 1..Len(callArgs.emails) :
      LET lower == ToLowerCase(callArgs.emails[i])
          expectHr == \/ HasHrKeyword(lower)
                      \/ /\ NamePattern(lower)
                         /\ callArgs.hrFocus \/ HasHrKeyword(ToLowerCase(callArgs.context))
      IN ~HasGenericPrefix(lower) =>
           /\ lower \in Range(callResult.hr) <=> expectHr
           /\ lower \in Range(callResult.general) <=> ~expectHr

\* C24: the result of resolveBingRedirect is either the link it was given,
\* unchanged, or a string that begins with http:// or https://.
ResolvedIsOriginalOrHttpUrl ==
  called => (callResult = callArgs \/ IsHttpUrl(callResult))

\* C29: every fetch of a result page of the primary engine is made in a
\* state where totalVisited < globalUrlBudget (a comparison with NaN is
\* false), so no such fetch follows the visit that reaches the budget.
SerpFetchOnlyWithBudgetLeft ==
  [][serpLog' # serpLog =>
       (req.globalUrlBudget # NaN /\ totalVisited < req.globalUrlBudget)]_vars

====
